---- MODULE Spec2Model ----
(***************************************************************************)
(* Remote mouse server.                                                    *)
(*                                                                         *)
(* Two programs are modelled, each with its own specification:             *)
(*   Spec    the supervisor, class ServerManager of app.py, together with  *)
(*           the state file, the process table and the TCP ports it        *)
(*           observes;                                                     *)
(*   WsSpec  the control server of main.py: the /ws connection handlers,   *)
(*           the session slot active_controller and the pointer.           *)
(*                                                                         *)
(* Python's None is 0 for pid, port and process (the code tests these by   *)
(* truthiness, which treats None and 0 alike), NoTime for start_time and   *)
(* NoIp for ip.  os.remove of the state file is taken to succeed; a write  *)
(* of the state file may fail (_save_state catches and logs it).           *)
(***************************************************************************)
EXTENDS Integers, Sequences, FiniteSets, TLC

\* ------------------------------------------------------------------ bounds

\* process identifiers the operating system hands out: 1..MaxPid
MaxPid == 1
\* the clock runs 0..MaxClock ticks
MaxClock == 1
\* clock ticks per second (the sub-second part of a datetime)
TicksPerSec == 2
\* how many ports, the last of find_free_port's default range, vary in
\* availability; every other port is free
NumPorts == 1
\* connections to /ws: 1..NumConns
NumConns == 2
\* the pointer stays within MaxCoord unit moves of the screen corner (0, 0)
MaxCoord == 1

\* ------------------------------------------------------- program constants

DEFAULT_PORT == 8000
\* find_free_port's default end of range
DefaultEnd == 8100
\* the size of find_free_port's default range 8000..8100, the rangeSize of
\* the port search
RangeSize == DefaultEnd - DEFAULT_PORT

NoPid == 0
NoPort == 0
NoTime == 0 - 1
NoIp == "None"
LanIp == "192.168.1.5"

Pids == 1..MaxPid
\* the ports whose availability varies
Ports == (DefaultEnd - NumPorts)..(DefaultEnd - 1)
\* settings.preferred_port as passed to start (the settings dialog accepts
\* 1024..65535)
PreferredPorts == Ports \cup {DefaultEnd}
Times == 0..MaxClock

VARIABLES
    constructed,   \* a ServerManager instance exists (its __init__ returned)
    server,        \* the instance's fields
    record,        \* content of STATE_FILE
    alive,         \* pids the operating system reports alive
    listening,     \* ports with a listener (connect succeeds, bind fails)
    now,           \* datetime.now()
    ret,           \* what the supervisor operation just taken returned or
                   \* raised; NoRet after a step of the environment
    calls          \* the system calls that operation made, in order

supVars == <<constructed, server, record, alive, listening, now, ret, calls>>

VARIABLES
    active_controller,  \* main.py's session slot: NoConn or a connection
    pc,                 \* where each connection's handler is suspended; a
                        \* connection whose handler has ended is "idle", and
                        \* its next attempt is a new WebSocket
    ended,              \* the handler that ended in the step just taken, and
                        \* how; NoEnd when none did
    mouse,              \* the pointer: position and the buttons held
    data,               \* the frame receive_text returned in the step just
                        \* taken and the connection it came from; NoData
                        \* when the step read none
    ops                 \* the pointer operations of the message just handled

wsVars == <<active_controller, pc, ended, mouse, data, ops>>

vars == <<supVars, wsVars>>

\* ------------------------------------------------------ datetime and JSON

\* datetime.isoformat(): the fraction is printed only when it is not zero
IsoFormat(t) ==
    IF t % TicksPerSec = 0 THEN <<t \div TicksPerSec>>
    ELSE <<t \div TicksPerSec, t % TicksPerSec>>

IsoParsable(s) ==
    \/ Len(s) = 1 /\ s[1] >= 0
    \/ Len(s) = 2 /\ s[1] >= 0 /\ s[2] >= 0 /\ s[2] < TicksPerSec

\* a fromisoformat that drops the fraction of the second
FromIsoFormat_NoFraction(s) == s[1] * TicksPerSec

\* datetime.fromisoformat() of a parsable string
FromIsoFormat(s) ==
    IF Len(s) = 1 THEN s[1] * TicksPerSec ELSE s[1] * TicksPerSec + s[2]

JNull == [tag |-> "null", s |-> <<>>]
JStr(s) == [tag |-> "str", s |-> s]

Absent == [kind |-> "absent", pid |-> NoPid, ip |-> NoIp, port |-> NoPort,
           start_time |-> JNull]
\* bytes that json.load rejects (a partial write, say)
Garbage == [Absent EXCEPT !.kind = "garbage"]
\* valid JSON that is not an object (a list, a number)
NonObject == [Absent EXCEPT !.kind = "nonobject"]
JObject(pid, ip, port, st) ==
    [kind |-> "object", pid |-> pid, ip |-> ip, port |-> port, start_time |-> st]

\* the fields of a fresh instance, __init__ before _check_and_load_state
FreshServer ==
    [process |-> NoPid, port |-> NoPort, ip |-> NoIp, start_time |-> NoTime,
     pid |-> NoPid, is_running |-> FALSE]

Call(name, arg) == [call |-> name, arg |-> arg]

\* get_uptime's "N/A"; an elapsed time is <<hours, minutes, seconds>>
UptimeNA == <<>>

\* entry: the value of is_running the operation found when it was called
NoRet == [op |-> "none", ok |-> FALSE, msg |-> "", raised |-> FALSE,
          uptime |-> UptimeNA, entry |-> FALSE]
Ret(op, ok, msg) == [NoRet EXCEPT !.op = op, !.ok = ok, !.msg = msg]
Raised(op, exc) == [NoRet EXCEPT !.op = op, !.msg = exc, !.raised = TRUE]

\* ------------------------------------------------------------ ServerManager

\* get_uptime: "N/A" without a start time, else hours, minutes, seconds
GetUptime(m, t) ==
    IF m.start_time = NoTime THEN UptimeNA
    ELSE LET secs == (t - m.start_time) \div TicksPerSec
         IN  <<secs \div 3600, (secs % 3600) \div 60, secs % 60>>

\* a liveness check that forgets the pid
IsServerProcessRunning_PortOnly(pid, port) ==
    [result |-> port \in listening, calls |-> <<Call("connect", port)>>]

\* _is_server_process_running: the port is tried first, the pid only if the
\* connect succeeded (os.kill(pid, 0); the tasklist branch answers the same
\* question)
IsServerProcessRunning(pid, port) ==
    IF port \notin listening
    THEN [result |-> FALSE, calls |-> <<Call("connect", port)>>]
    ELSE [result |-> pid \in alive,
          calls |-> <<Call("connect", port), Call("kill0", pid)>>]

\* _clear_state: the file is removed when it exists
ClearStateCalls(rec) ==
    IF rec.kind = "absent" THEN <<>> ELSE <<Call("remove", 0)>>

\* _check_and_load_state on fields m and file content rec.  exc is the
\* exception that escapes ("" when none does).
CheckAndLoadState(m, rec) ==
    IF rec.kind = "absent"
    THEN [server |-> m, record |-> rec, exc |-> "", calls |-> <<>>]
    ELSE IF rec.kind = "garbage"
    THEN \* json.JSONDecodeError is caught
         [server |-> m, record |-> Absent, exc |-> "", calls |-> ClearStateCalls(rec)]
    ELSE IF rec.kind = "nonobject"
    THEN \* state.get raises AttributeError, which the except clause omits
         [server |-> m, record |-> rec, exc |-> "AttributeError", calls |-> <<>>]
    ELSE
      IF rec.pid # NoPid /\ rec.port # NoPort
      THEN LET probe == IsServerProcessRunning(rec.pid, rec.port)
               m1 == [m EXCEPT !.is_running = TRUE, !.pid = rec.pid,
                               !.ip = rec.ip, !.port = rec.port]
           IN  IF probe.result
               THEN IF rec.start_time.tag = "null"
                    THEN \* fromisoformat(None)
                         [server |-> m1, record |-> rec, exc |-> "TypeError",
                          calls |-> probe.calls]
                    ELSE IF ~IsoParsable(rec.start_time.s)
                    THEN [server |-> m1, record |-> rec, exc |-> "ValueError",
                          calls |-> probe.calls]
                    ELSE [server |-> [m1 EXCEPT !.start_time =
                                         FromIsoFormat(rec.start_time.s)],
                          record |-> rec, exc |-> "", calls |-> probe.calls]
               ELSE [server |-> m, record |-> Absent, exc |-> "",
                     calls |-> probe.calls \o ClearStateCalls(rec)]
      ELSE [server |-> m, record |-> Absent, exc |-> "",
            calls |-> ClearStateCalls(rec)]

\* a record that stores the default port whatever port was bound
SavedState_DefaultPort(m) ==
    JObject(m.pid, m.ip, DEFAULT_PORT,
            IF m.start_time # NoTime THEN JStr(IsoFormat(m.start_time)) ELSE JNull)

\* what _save_state writes for fields m
SavedState(m) ==
    JObject(m.pid, m.ip, m.port,
            IF m.start_time # NoTime THEN JStr(IsoFormat(m.start_time)) ELSE JNull)

\* outcomes of writing the file: written, open() failed, a partial write
WriteOutcomes == {"ok", "open_failed", "partial"}

\* _save_state
SaveState(m, rec, wr) ==
    IF m.pid = NoPid THEN rec
    ELSE IF wr = "ok" THEN SavedState(m)
    ELSE IF wr = "partial" THEN Garbage
    ELSE rec

\* find_free_port(start, end): the first port of start..end-1 that binds,
\* NoPort for the RuntimeError
RECURSIVE FindFreePort(_, _, _)
FindFreePort(start, end, busy) ==
    IF start >= end THEN NoPort
    ELSE IF start \notin busy THEN start
    ELSE FindFreePort(start + 1, end, busy)

\* the bind attempts find_free_port makes
RECURSIVE BindCalls(_, _, _)
BindCalls(start, end, busy) ==
    IF start >= end THEN <<>>
    ELSE IF start \notin busy THEN <<Call("bind", start)>>
    ELSE <<Call("bind", start)>> \o BindCalls(start + 1, end, busy)

\* Popen: it raises, or a child with a pid that was free is created; the
\* child has exited by the single poll after the sleep, or it runs
SpawnOutcomes ==
    {[raised |-> TRUE, pid |-> NoPid, exited |-> FALSE]} \cup
    {[raised |-> FALSE, pid |-> c, exited |-> e] : c \in Pids \ alive, e \in BOOLEAN}

\* a start that never refuses
StartRefused_Never(m) == FALSE

\* start's first test: the call is refused while a server is running
StartRefused(m) == m.is_running

\* a start that marks the server running before the poll
Spawned_Running(m, spawn) ==
    [m EXCEPT !.process = spawn.pid, !.is_running = TRUE]

\* the fields once Popen has returned the child
Spawned(m, spawn) == [m EXCEPT !.process = spawn.pid]

\* the fields once the child was found running at the poll
Started(m, t) ==
    [m EXCEPT !.is_running = TRUE, !.start_time = t, !.pid = m.process]

\* start(preferred_port) on fields m; t is datetime.now() after the sleep
StartBody(m, preferred_port, ipOk, mainExists, spawn, t, wr) ==
    LET same == [server |-> m, record |-> record, alive |-> alive,
                 listening |-> listening, calls |-> <<>>, ret |-> NoRet]
        fp == FindFreePort(preferred_port, DefaultEnd, listening)
        binds == BindCalls(preferred_port, DefaultEnd, listening)
        m1 == [m EXCEPT !.ip = LanIp]
        m2 == [m1 EXCEPT !.port = fp]
        m3 == Spawned(m2, spawn)
        m4 == Started(m3, t)
    IN  IF StartRefused(m)
        THEN [same EXCEPT !.ret = Ret("start", FALSE, "Server is already running")]
        ELSE IF ~ipOk
        THEN [same EXCEPT !.ret = Ret("start", FALSE, "Error starting server: gaierror")]
        ELSE IF fp = NoPort
        THEN [same EXCEPT !.server = m1, !.calls = binds,
                 !.ret = Ret("start", FALSE,
                             "Error starting server: No free ports available in range")]
        ELSE IF ~mainExists
        THEN [same EXCEPT !.server = m2, !.calls = binds,
                 !.ret = Ret("start", FALSE, "main.py not found")]
        ELSE IF spawn.raised
        THEN [same EXCEPT !.server = m2,
                 !.calls = binds \o <<Call("spawn", fp)>>,
                 !.ret = Ret("start", FALSE, "Error starting server: OSError")]
        ELSE IF spawn.exited
        THEN [same EXCEPT !.server = m3,
                 !.calls = binds \o <<Call("spawn", fp)>>,
                 !.ret = Ret("start", FALSE, "Server failed to start")]
        ELSE [same EXCEPT !.server = m4,
                 !.alive = alive \cup {spawn.pid},
                 !.listening = listening \cup {fp},
                 !.record = SaveState(m4, record, wr),
                 !.calls = binds \o <<Call("spawn", fp), Call("write", spawn.pid)>>,
                 !.ret = Ret("start", TRUE, "Server started successfully")]

\* stop's first test: recovery from the state file is tried
StopRecovers(m) == ~m.is_running /\ m.pid = NoPid

\* the fields after stop's try block
StopDone(m) == [m EXCEPT !.is_running = FALSE]

\* an except handler that leaves is_running as it was
StopFailed_KeepsRunning(m) == m

\* the fields after stop's except handler
StopFailed(m) == [m EXCEPT !.is_running = FALSE]

\* stop() on fields m; killOk: the termination request to a live pid succeeds
StopBody(m, killOk) ==
    LET same == [server |-> m, record |-> record, calls |-> <<>>, ret |-> NoRet]
        recover == StopRecovers(m)
        r == IF recover THEN CheckAndLoadState(m, record)
             ELSE [server |-> m, record |-> record, exc |-> "", calls |-> <<>>]
        m1 == r.server
        sent == m1.pid # NoPid
        killCalls == IF sent THEN <<Call("kill", m1.pid)>> ELSE <<>>
        failed == sent /\ (m1.pid \notin alive \/ ~killOk)
        off == StopDone(m1)
    IN  IF recover /\ r.exc # ""
        THEN [same EXCEPT !.server = m1, !.record = r.record, !.calls = r.calls,
                 !.ret = Raised("stop", r.exc)]
        ELSE IF recover /\ ~m1.is_running
        THEN [same EXCEPT !.server = m1, !.record = r.record, !.calls = r.calls,
                 !.ret = Ret("stop", FALSE, "Server is not running")]
        ELSE IF failed
        THEN [same EXCEPT !.server = StopFailed(m1), !.record = Absent,
                 !.calls = r.calls \o killCalls \o ClearStateCalls(r.record),
                 !.ret = Ret("stop", FALSE, "Error stopping server")]
        ELSE [same EXCEPT !.server = off, !.record = Absent,
                 !.calls = r.calls \o killCalls \o ClearStateCalls(r.record),
                 !.ret = [Ret("stop", TRUE, "Server stopped") EXCEPT
                             !.uptime = GetUptime(off, now)]]

\* ------------------------------------------------------------------ actions

\* the application starts: server = ServerManager()
Construct ==
    LET r == CheckAndLoadState(FreshServer, record)
    IN  /\ constructed' = (r.exc = "")
        /\ server' = IF r.exc = "" THEN r.server ELSE FreshServer
        /\ record' = r.record
        /\ calls' = r.calls
        /\ ret' = IF r.exc = "" THEN Ret("construct", TRUE, "") ELSE Raised("construct", r.exc)
        /\ UNCHANGED <<alive, listening, now>>
        /\ UNCHANGED wsVars

\* the inputs of one start call; a choice is listed only where the code
\* reaches the step that reads it
StartInputs(writes) ==
    LET none == [ipOk |-> FALSE, mainExists |-> FALSE,
                 spawn |-> [raised |-> TRUE, pid |-> NoPid, exited |-> FALSE],
                 wr |-> "ok"]
    IN  {none, [none EXCEPT !.ipOk = TRUE],
         [none EXCEPT !.ipOk = TRUE, !.mainExists = TRUE]}
        \cup {[none EXCEPT !.ipOk = TRUE, !.mainExists = TRUE, !.spawn = sp] :
                 sp \in {x \in SpawnOutcomes : x.exited}}
        \cup {[ipOk |-> TRUE, mainExists |-> TRUE, spawn |-> sp, wr |-> wr] :
                 sp \in {x \in SpawnOutcomes : ~x.raised /\ ~x.exited},
                 wr \in writes}

\* the sleep's passage of time is a Tick before the call
StartWith(preferred_port, writes) ==
    /\ constructed
    /\ \E i \in StartInputs(writes) :
          LET r == StartBody(server, preferred_port, i.ipOk, i.mainExists,
                             i.spawn, now, i.wr)
          IN  /\ server' = r.server
              /\ record' = r.record
              /\ alive' = r.alive
              /\ listening' = r.listening
              /\ calls' = r.calls
              /\ ret' = [r.ret EXCEPT !.entry = server.is_running]
    /\ UNCHANGED <<constructed, now>>
    /\ UNCHANGED wsVars

Start(preferred_port) == StartWith(preferred_port, WriteOutcomes)

Stop ==
    /\ constructed
    /\ \E killOk \in BOOLEAN :
          LET r == StopBody(server, killOk)
          IN  /\ server' = r.server
              /\ record' = r.record
              /\ calls' = r.calls
              /\ ret' = [r.ret EXCEPT !.entry = server.is_running]
    /\ UNCHANGED <<constructed, alive, listening, now>>
    /\ UNCHANGED wsVars

\* a refresh that forgets the start time of a server that is not running
UpdateUptimeBody_ClearsStartTime(m, t) ==
    [server |-> IF m.is_running THEN m ELSE [m EXCEPT !.start_time = NoTime],
     shown |-> m.is_running,
     text |-> IF m.is_running THEN GetUptime(m, t) ELSE UptimeNA]

\* one pass of update_uptime's loop after its sleep, on fields m at time t:
\* the fields after it, whether uptime_text was set, and the text
UpdateUptimeBody(m, t) ==
    [server |-> m,
     shown |-> m.is_running,
     text |-> IF m.is_running THEN GetUptime(m, t) ELSE UptimeNA]

\* the background thread started after server = ServerManager(); the sleep's
\* passage of time is Tick, and the thread may run at any time or not at all
UpdateUptime ==
    /\ constructed
    /\ LET r == UpdateUptimeBody(server, now)
       IN  /\ server' = r.server
           /\ ret' = [NoRet EXCEPT !.op = "update_uptime", !.ok = r.shown,
                                   !.uptime = r.text]
    /\ calls' = <<>>
    /\ UNCHANGED <<constructed, record, alive, listening, now>>
    /\ UNCHANGED wsVars

\* the environment: time passes, processes exit and appear, ports open and close
Tick ==
    /\ now < MaxClock
    /\ now' = now + 1
    /\ UNCHANGED <<constructed, server, record, alive, listening>>
    /\ ret' = NoRet /\ calls' = <<>>
    /\ UNCHANGED wsVars

ProcessExit(p) ==
    /\ p \in alive
    /\ alive' = alive \ {p}
    /\ UNCHANGED <<constructed, server, record, listening, now>>
    /\ ret' = NoRet /\ calls' = <<>>
    /\ UNCHANGED wsVars

ProcessAppear(p) ==
    /\ p \notin alive
    /\ alive' = alive \cup {p}
    /\ UNCHANGED <<constructed, server, record, listening, now>>
    /\ ret' = NoRet /\ calls' = <<>>
    /\ UNCHANGED wsVars

PortClose(q) ==
    /\ q \in listening
    /\ listening' = listening \ {q}
    /\ UNCHANGED <<constructed, server, record, alive, now>>
    /\ ret' = NoRet /\ calls' = <<>>
    /\ UNCHANGED wsVars

PortOpen(q) ==
    /\ q \notin listening
    /\ listening' = listening \cup {q}
    /\ UNCHANGED <<constructed, server, record, alive, now>>
    /\ ret' = NoRet /\ calls' = <<>>
    /\ UNCHANGED wsVars

\* another instance of the application, started in the same directory,
\* writes the state file
OtherInstanceWrites(rec) ==
    /\ record = Absent
    /\ record' = rec
    /\ UNCHANGED <<constructed, server, alive, listening, now>>
    /\ ret' = NoRet /\ calls' = <<>>
    /\ UNCHANGED wsVars

\* what another instance writes: a live handle, one without start_time,
\* a truncated file, a file that is not an object
OtherRecords ==
    {Garbage, NonObject,
     JObject(1, LanIp, DefaultEnd - 1, JNull),
     JObject(1, LanIp, DefaultEnd - 1, JStr(IsoFormat(0)))}

\* what a previous run can have left in the state file
InitRecords ==
    {Absent, Garbage, NonObject} \cup
    {JObject(p, LanIp, q, st) :
        p \in {NoPid, 1}, q \in {NoPort, DefaultEnd - 1},
        st \in {JNull, JStr(<<>>), JStr(IsoFormat(0))}}

\* --------------------------------------------------- main.py: /ws handler

Conns == 1..NumConns
NoConn == 0
Coords == 0..MaxCoord
\* the pointer positions followed: screen coordinates, from the corner (0, 0)
Positions == {p \in Coords \X Coords : p[1] + p[2] <= MaxCoord}
\* the deltas of a move that can keep the pointer among Positions
Deltas == (0 - MaxCoord)..MaxCoord

\* a field that the JSON object does not have
Missing == <<>>
Get(field, default) == IF field = Missing THEN default ELSE field[1]

ActionNames ==
    {"click", "left_press", "left_release", "right_press", "right_release",
     "scroll", "hscroll", "move"}

NoValue == [kind |-> "object", button |-> Missing, amount |-> Missing,
            dx |-> Missing, dy |-> Missing]

\* the "value" a client can send with an action: the fields the action
\* reads, each present or not; no "value" at all; a "value" that is no object
ValuesOf(a) ==
    {NoValue}
    \cup (IF a \in {"click", "scroll", "hscroll", "move"}
          THEN {[NoValue EXCEPT !.kind = "missing"], [NoValue EXCEPT !.kind = "nonobject"]}
          ELSE {})
    \cup (IF a = "click"
          THEN {[NoValue EXCEPT !.button = <<b>>] : b \in {"left", "right", "middle"}}
          ELSE {})
    \cup (IF a \in {"scroll", "hscroll"}
          THEN {[NoValue EXCEPT !.amount = <<n>>] : n \in {0 - 1, 1}}
          ELSE {})
    \cup (IF a = "move"
          THEN {[NoValue EXCEPT !.dx = x, !.dy = y] :
                  x \in {Missing, <<0 - 1>>, <<1>>},
                  y \in {Missing, <<0 - 1>>, <<1>>}}
          ELSE {})

\* the text frames a client can send: text that is not JSON, JSON that is not
\* an object, an object with a known action, an unknown one or none
Messages ==
    {[kind |-> k, action |-> Missing, value |-> NoValue] : k \in {"text", "nonobject"}}
    \cup {[kind |-> "object", action |-> a, value |-> NoValue] :
            a \in {Missing, <<"unknown_x">>}}
    \cup UNION {{[kind |-> "object", action |-> <<a>>, value |-> v] :
                    v \in ValuesOf(a)} : a \in ActionNames}

Op(name, button, x, y) == [op |-> name, button |-> button, x |-> x, y |-> y]

\* pynput's Controller
MousePress(m, b) == [m EXCEPT !.held = @ \cup {b}]
MouseRelease(m, b) == [m EXCEPT !.held = @ \ {b}]
MouseSetPosition(m, x, y) == [m EXCEPT !.position = <<x, y>>]

Handled(m, o) == [mouse |-> m, ops |-> o, exc |-> ""]

\* an error that is swallowed, the loop going on
Fails_Continues(m, exc) == [mouse |-> m, ops |-> <<>>, exc |-> ""]

\* an exception raised in the loop body: no pointer operation was issued
Fails(m, exc) == [mouse |-> m, ops |-> <<>>, exc |-> exc]

\* an action that matches no branch raising an error
IgnoreUnknown_Raises(m) == [mouse |-> m, ops |-> <<>>, exc |-> "ValueError"]

\* an action that matches no branch of the if/elif chain: nothing is done
IgnoreUnknown(m) == Handled(m, <<>>)

\* a read that yields the origin instead of the pointer's position
MoveBase_Origin(m) == <<0, 0>>

\* current_pos = mouse.position
MoveBase(m) == m.position

\* a move that sets the position to the delta
MoveTarget_Absolute(pos, dx, dy) == <<dx, dy>>

\* (current_pos[0] + dx, current_pos[1] + dy)
MoveTarget(pos, dx, dy) == <<pos[1] + dx, pos[2] + dy>>

\* a click that always uses the left button
ClickButton_AlwaysLeft(button_name) == "left"

\* Button.left if button_name == "left" else Button.right
ClickButton(button_name) == IF button_name = "left" THEN "left" ELSE "right"

\* one pass of the loop body after receive_text returned msg: json.loads and
\* the if/elif chain.  exc is the exception that leaves the loop.
Dispatch(m, msg) ==
    LET action == Get(msg.action, "None")
        v == msg.value
        \* message.get("value", {}) followed by value.get(...)
        badValue == v.kind = "nonobject"
    IN  IF msg.kind = "text" THEN Fails(m, "JSONDecodeError")
        ELSE IF msg.kind = "nonobject" THEN Fails(m, "AttributeError")
        ELSE IF action = "click"
        THEN IF badValue THEN Fails(m, "AttributeError")
             ELSE LET button == ClickButton(Get(v.button, "left"))
                  IN  Handled(MouseRelease(m, button), <<Op("click", button, 0, 0)>>)
        ELSE IF action = "left_press"
        THEN Handled(MousePress(m, "left"), <<Op("press", "left", 0, 0)>>)
        ELSE IF action = "left_release"
        THEN Handled(MouseRelease(m, "left"), <<Op("release", "left", 0, 0)>>)
        ELSE IF action = "right_press"
        THEN Handled(MousePress(m, "right"), <<Op("press", "right", 0, 0)>>)
        \* the branch that releases the right button tests "right_press" a
        \* second time and is never taken
        ELSE IF action = "scroll"
        THEN IF badValue THEN Fails(m, "AttributeError")
             ELSE Handled(m, <<Op("scroll", "", 0, Get(v.amount, 0))>>)
        ELSE IF action = "hscroll"
        THEN IF badValue THEN Fails(m, "AttributeError")
             ELSE Handled(m, <<Op("scroll", "", Get(v.amount, 0), 0)>>)
        ELSE IF action = "move"
        THEN IF badValue THEN Fails(m, "AttributeError")
             ELSE LET current_pos == MoveBase(m)
                      to == MoveTarget(current_pos, Get(v.dx, 0), Get(v.dy, 0))
                  IN  Handled(MouseSetPosition(m, to[1], to[2]),
                              <<Op("get_position", "", current_pos[1], current_pos[2]),
                                Op("set_position", "", to[1], to[2])>>)
        ELSE IgnoreUnknown(m)

NoEnd == [conn |-> NoConn, how |-> ""]
End(c, how) == [conn |-> c, how |-> how]

NoData == [conn |-> NoConn, msg |-> [kind |-> "none", action |-> Missing,
                                     value |-> NoValue]]
Data(c, msg) == [conn |-> c, msg |-> msg]

\* a test of the slot that admits every connection
Admits_Always(slot) == TRUE

\* the handler's first test: a connection is admitted when the slot is empty
Admits(slot) == slot = NoConn

\* a slot that is emptied on a disconnect only
SlotAtEnd_OnDisconnectOnly(slot, how) ==
    IF how = "WebSocketDisconnect" THEN NoConn ELSE slot

\* the finally block: the slot is emptied however the loop was left
SlotAtEnd(slot, how) == NoConn

\* a client opens a connection: the handler runs to its first await, the
\* close of a refused connection or the accept of an admitted one
Connect(c) ==
    /\ pc[c] = "idle"
    /\ pc' = [pc EXCEPT ![c] = IF Admits(active_controller) THEN "accepting"
                                ELSE "closing"]
    /\ ended' = NoEnd
    /\ data' = NoData
    /\ ops' = <<>>
    /\ UNCHANGED <<active_controller, mouse>>
    /\ UNCHANGED supVars

\* await websocket.close(code=4001) returns and the handler returns
Refused(c) ==
    /\ pc[c] = "closing"
    /\ pc' = [pc EXCEPT ![c] = "idle"]
    /\ ended' = End(c, "4001")
    /\ data' = NoData
    /\ ops' = <<>>
    /\ UNCHANGED <<active_controller, mouse>>
    /\ UNCHANGED supVars

\* await websocket.accept() returns: the slot is taken, the loop is entered
\* and suspends in receive_text
Accepted(c) ==
    /\ pc[c] = "accepting"
    /\ active_controller' = c
    /\ pc' = [pc EXCEPT ![c] = "receiving"]
    /\ ended' = NoEnd
    /\ data' = NoData
    /\ ops' = <<>>
    /\ UNCHANGED mouse
    /\ UNCHANGED supVars

\* await websocket.accept() raises (the client has gone): the handler ends
\* before its try block
AcceptFails(c) ==
    /\ pc[c] = "accepting"
    /\ pc' = [pc EXCEPT ![c] = "idle"]
    /\ ended' = End(c, "accept_error")
    /\ data' = NoData
    /\ ops' = <<>>
    /\ UNCHANGED <<active_controller, mouse>>
    /\ UNCHANGED supVars

\* receive_text returns msg; the message is handled without suspending, up
\* to the next receive_text or, through the finally block, to the end
Receive(c, msg) ==
    /\ pc[c] = "receiving"
    /\ LET r == Dispatch(mouse, msg)
       IN  /\ r.mouse.position \in Positions
           /\ mouse' = r.mouse
           /\ ops' = r.ops
           /\ IF r.exc = ""
              THEN /\ ended' = NoEnd
                   /\ UNCHANGED <<active_controller, pc>>
              ELSE /\ active_controller' = SlotAtEnd(active_controller, r.exc)
                   /\ pc' = [pc EXCEPT ![c] = "idle"]
                   /\ ended' = End(c, r.exc)
           /\ data' = Data(c, msg)
    /\ UNCHANGED supVars

\* receive_text raises WebSocketDisconnect: except, then finally
Disconnect(c) ==
    /\ pc[c] = "receiving"
    /\ active_controller' = SlotAtEnd(active_controller, "WebSocketDisconnect")
    /\ pc' = [pc EXCEPT ![c] = "idle"]
    /\ ended' = End(c, "WebSocketDisconnect")
    /\ data' = NoData
    /\ ops' = <<>>
    /\ UNCHANGED mouse
    /\ UNCHANGED supVars

\* ----------------------------------------------------------- specifications

SupInit ==
    /\ constructed = FALSE
    /\ server = FreshServer
    /\ record \in InitRecords
    /\ alive \in SUBSET {1}
    /\ listening \in SUBSET {DefaultEnd - 1}
    /\ now = 0
    /\ ret = NoRet
    /\ calls = <<>>

\* main.py as loaded: the slot is empty, no handler runs
WsInit ==
    /\ active_controller = NoConn
    /\ pc = [c \in Conns |-> "idle"]
    /\ ended = NoEnd
    /\ data = NoData
    /\ mouse \in {[position |-> p, held |-> {}] : p \in Positions}
    /\ ops = <<>>

\* the supervisor and its environment
Init ==
    /\ SupInit
    /\ active_controller = NoConn
    /\ pc = [c \in Conns |-> "idle"]
    /\ ended = NoEnd
    /\ data = NoData
    /\ mouse = [position |-> <<0, 0>>, held |-> {}]
    /\ ops = <<>>

Next ==
    \/ Construct
    \/ \E p \in PreferredPorts : Start(p)
    \/ Stop
    \/ Tick
    \/ \E p \in Pids : ProcessExit(p)
    \/ \E p \in Pids : ProcessAppear(p)
    \/ \E q \in Ports : PortClose(q)
    \/ \E q \in Ports : PortOpen(q)
    \/ \E rec \in OtherRecords : OtherInstanceWrites(rec)
    \/ UpdateUptime

Spec == Init /\ [][Next]_vars

\* the supervisor as the only writer of its state file, every write
\* succeeding: the file found at construction is absent or one that an earlier
\* run saved whole
SavedWhole(rec) ==
    /\ rec.kind = "object" /\ rec.pid # NoPid /\ rec.port # NoPort
    /\ rec.start_time.tag = "str" /\ IsoParsable(rec.start_time.s)

ReliableInit ==
    /\ Init
    /\ record = Absent \/ SavedWhole(record)

ReliableNext ==
    \/ Construct
    \/ \E p \in PreferredPorts : StartWith(p, {"ok"})
    \/ Stop
    \/ Tick
    \/ \E p \in Pids : ProcessExit(p)
    \/ \E p \in Pids : ProcessAppear(p)
    \/ \E q \in Ports : PortClose(q)
    \/ \E q \in Ports : PortOpen(q)
    \/ UpdateUptime

ReliableSpec == ReliableInit /\ [][ReliableNext]_vars

\* the control server, once spawned
WsSpecInit ==
    /\ WsInit
    /\ constructed = FALSE
    /\ server = FreshServer
    /\ record = Absent
    /\ alive = {}
    /\ listening = {}
    /\ now = 0
    /\ ret = NoRet
    /\ calls = <<>>

WsNext ==
    \/ \E c \in Conns : Connect(c)
    \/ \E c \in Conns : Refused(c)
    \/ \E c \in Conns : Accepted(c)
    \/ \E c \in Conns : AcceptFails(c)
    \/ \E c \in Conns : \E msg \in Messages : Receive(c, msg)
    \/ \E c \in Conns : Disconnect(c)

WsSpec == WsSpecInit /\ [][WsNext]_vars

\* ------------------------------------------------------------------ claims

CallNames(cs) == {cs[i].call : i \in DOMAIN cs}

\* the connections inside the dispatcher loop
Admitted == {c \in Conns : pc[c] = "receiving"}

\* C1: at most one connection is admitted and inside the dispatcher loop at
\* any instant, and while one is admitted the slot is occupied, so that an
\* attempt made then is refused with 4001.
C1_SingleActiveSession ==
    /\ Cardinality(Admitted) <= 1
    /\ Admitted # {} => active_controller # NoConn

\* C2: a supervisor constructed over a record that decodes to a handle whose
\* port does not accept a loopback connection or whose pid is not alive ends
\* construction not running, with the record removed.
C2_StaleStateReconciled ==
    [][(ret'.op = "construct" /\ record.kind = "object"
          /\ ~(record.port \in listening /\ record.pid \in alive))
       => (constructed' /\ ~server'.is_running /\ record' = Absent)]_vars

\* the port accepted the connection, the pid was probed and found dead, the
\* record was removed
C2_Witness ==
    /\ ret.op = "construct" /\ constructed /\ ~server.is_running
    /\ {"kill0", "remove"} \subseteq CallNames(calls)
    /\ record = Absent

\* C3: Stop called on a supervisor that is not running, with no record
\* persisted, returns "Server is not running" and leaves the record absent.
C3_IdempotentStop ==
    [][(constructed /\ ~server.is_running /\ record = Absent /\ ret'.op = "stop")
       => (~ret'.ok /\ ~ret'.raised /\ ret'.msg = "Server is not running"
           /\ record' = Absent)]_vars

\* C4: Stop called on a running supervisor leaves it not running and the
\* record absent, whether or not the termination request succeeded.
C4_StopFinalState ==
    [][(server.is_running /\ ret'.op = "stop")
       => (~server'.is_running /\ record' = Absent /\ ~ret'.raised)]_vars

\* Stop was called while running and the termination request failed
C4_Witness ==
    /\ ret.op = "stop" /\ ret.entry /\ ret.msg = "Error stopping server"
    /\ ~server.is_running /\ record = Absent

\* C5: pid is set only while is_running holds, and after a Stop that returned
\* the fields pid, ip, port and start_time are all cleared.
C5_HandleCleared ==
    /\ server.pid # NoPid => server.is_running
    /\ (ret.op = "stop" /\ ~ret.raised /\ ~server.is_running)
          => (server.pid = NoPid /\ server.ip = NoIp /\ server.port = NoPort
              /\ server.start_time = NoTime)

\* the lowest port of [P, P + RangeSize) that can be bound, NoPort if none
LowestBindable(P) ==
    LET free == {q \in P..(P + RangeSize - 1) : q \notin listening}
    IN  IF free = {} THEN NoPort
        ELSE CHOOSE q \in free : \A r \in free : q <= r

NoFreePortMsg == "Error starting server: No free ports available in range"

\* the start call got as far as the port search
PortSearched(r) ==
    /\ r.op = "start"
    /\ r.msg \notin {"Server is already running", "Error starting server: gaierror"}

\* C6: the port search of Start(P) yields the lowest bindable port of
\* [P, P + 100) and fails only when none of them can be bound.
C6_PortSearchFirstFit ==
    [][\A P \in PreferredPorts :
         (Start(P) /\ PortSearched(ret'))
         => IF LowestBindable(P) = NoPort
            THEN ret'.msg = NoFreePortMsg
            ELSE ret'.msg # NoFreePortMsg /\ server'.port = LowestBindable(P)]_vars

StartFailures ==
    {NoFreePortMsg, "Error starting server: gaierror", "main.py not found",
     "Error starting server: OSError", "Server failed to start"}

\* C7: a Start that fails (no free port, no address, no entry point, spawn
\* error, child exited at the poll) returns ok = false, leaves the supervisor
\* not running and leaves the record as it was.
C7_FailedStartOffline ==
    [][(~server.is_running /\ ret'.op = "start")
       => /\ ret'.msg \in StartFailures <=> ~ret'.ok
          /\ ~ret'.ok => (~server'.is_running /\ record' = record)]_vars

\* the child had exited at the poll
C7_Witness ==
    /\ ret.op = "start" /\ ~ret.entry /\ ret.msg = "Server failed to start"
    /\ ~ret.ok /\ ~server.is_running /\ server.process # NoPid

\* C8: Start called while running returns "Server is already running" and
\* changes no field, no record, no process and no port, and makes no call.
C8_StartWhileRunning ==
    [][(server.is_running /\ ret'.op = "start")
       => (~ret'.ok /\ ret'.msg = "Server is already running"
           /\ server' = server /\ record' = record /\ alive' = alive
           /\ listening' = listening /\ calls' = <<>>)]_vars

C8_Witness ==
    /\ ret.op = "start" /\ ret.entry /\ ret.msg = "Server is already running"
    /\ server.is_running

\* C9: a supervisor constructed while the record is what _save_state wrote
\* for the running handle (pid, ip, port and the start time a successful
\* Start records), the pid alive and the port accepting connections, is
\* running with the same pid, ip, port and start time.
C9_RoundTrip ==
    [][(ret'.op = "construct" /\ server.is_running /\ server.start_time # NoTime
          /\ record = SavedState(server)
          /\ server.pid \in alive /\ server.port \in listening)
       => (constructed' /\ server'.is_running
           /\ server'.pid = server.pid /\ server'.ip = server.ip
           /\ server'.port = server.port
           /\ server'.start_time = server.start_time)]_vars

\* a handle adopted whose start time has a fraction of a second: only Start
\* records such a time
C9_Witness ==
    /\ ret.op = "construct" /\ constructed /\ server.is_running
    /\ server.start_time # NoTime /\ server.start_time % TicksPerSec # 0
    /\ record = SavedState(server)

\* a record that cannot be fully decoded into a handle
Malformed(rec) ==
    \/ rec.kind \in {"garbage", "nonobject"}
    \/ /\ rec.kind = "object"
       /\ \/ rec.pid = NoPid
          \/ rec.port = NoPort
          \/ rec.start_time.tag = "null"
          \/ ~IsoParsable(rec.start_time.s)

\* C10: over a record that cannot be fully decoded, construction and the
\* recovery step of Stop raise nothing, remove the record and leave the
\* supervisor not running.
C10_MalformedIsAbsence ==
    [][(Malformed(record)
          /\ (ret'.op = "construct" \/ (ret'.op = "stop" /\ StopRecovers(server))))
       => (~ret'.raised /\ record' = Absent /\ ~server'.is_running)]_vars

\* C11: when a session leaves the dispatcher loop, for whatever reason, the
\* slot is empty after that step; a slot that is occupied holds a connection
\* inside the loop; an attempt that finds the slot empty is admitted.
C11_SlotReleased ==
    [][/\ \A c \in Conns :
            (pc[c] = "receiving" /\ pc'[c] # "receiving")
            => (active_controller' = NoConn /\ pc'[c] = "idle" /\ ended'.conn = c)
       /\ active_controller' # NoConn => pc'[active_controller'] = "receiving"
       /\ \A c \in Conns :
            (pc[c] = "idle" /\ pc'[c] # "idle" /\ active_controller = NoConn)
            => pc'[c] = "accepting"]_vars

\* a session ended by an error raised while dispatching, the slot empty
C11_Witness ==
    /\ ended.how = "AttributeError" /\ data.conn = ended.conn
    /\ active_controller = NoConn /\ pc[ended.conn] = "idle"

\* what a step of connection c leaves alone when c is refused
RefusalFrame(c) ==
    /\ active_controller' = active_controller
    /\ mouse' = mouse
    /\ ops' = <<>>
    /\ \A d \in Conns \ {c} : pc'[d] = pc[d]

\* C12: an attempt that finds the slot occupied goes to the close with code
\* 4001 and not to the accept, and neither step changes the slot, another
\* handler or the pointer, or issues a pointer operation.
C12_RefusalHasNoEffect ==
    [][\A c \in Conns :
         /\ (pc[c] = "idle" /\ pc'[c] # "idle" /\ active_controller # NoConn)
              => (pc'[c] = "closing" /\ RefusalFrame(c))
         /\ (pc[c] = "closing" /\ pc'[c] # "closing")
              => (ended' = End(c, "4001") /\ pc'[c] = "idle" /\ RefusalFrame(c))]_vars

\* a connection was closed with 4001 while another holds the slot and is in
\* the loop
C12_Witness ==
    /\ ended.how = "4001"
    /\ active_controller # NoConn /\ active_controller # ended.conn
    /\ pc[active_controller] = "receiving"

\* C13: a frame that is not JSON ends the session that sent it and no other:
\* no pointer operation, the pointer unchanged, the slot empty, the sender
\* back to where a new attempt starts, every other handler where it was.
C13_MalformedEndsSession ==
    [][\A c \in Conns :
         (data'.conn = c /\ data'.msg.kind = "text")
         => (ended' = End(c, "JSONDecodeError") /\ ops' = <<>> /\ mouse' = mouse
             /\ active_controller' = NoConn
             /\ pc' = [pc EXCEPT ![c] = "idle"])]_vars

C13_Witness ==
    /\ data.msg.kind = "text" /\ ended = End(data.conn, "JSONDecodeError")
    /\ ops = <<>> /\ active_controller = NoConn

\* C14: a message whose action is missing or is not a name of the protocol
\* issues no pointer operation and changes neither the pointer, the slot nor
\* any handler: the session stays in the loop.
C14_UnknownActionNoOp ==
    [][(data'.conn # NoConn /\ data'.msg.kind = "object"
          /\ Get(data'.msg.action, "None") \notin ActionNames)
       => (ops' = <<>> /\ mouse' = mouse /\ active_controller' = active_controller
           /\ pc' = pc /\ ended' = NoEnd)]_vars

C14_Witness ==
    /\ data.msg.action = <<"unknown_x">> /\ ops = <<>> /\ ended = NoEnd
    /\ pc[data.conn] = "receiving" /\ active_controller = data.conn

\* C15: right_release calls release(right) once and leaves the right button
\* not held.
C15_RightRelease ==
    [][(data'.conn # NoConn /\ data'.msg.action = <<"right_release">>)
       => (ops' = <<Op("release", "right", 0, 0)>> /\ "right" \notin mouse'.held)]_vars

MoveMsg(dx, dy) ==
    [kind |-> "object", action |-> <<"move">>,
     value |-> [NoValue EXCEPT !.dx = dx, !.dy = dy]]

\* the position after the loop body has handled msg with the pointer at m
After(m, msg) == Dispatch(m, msg).mouse

\* C16: from the position of the pointer when a session waits for a message,
\* two moves end where the one move by the summed deltas ends, and a move
\* without dx and dy leaves the position as it is.
C16_MoveAdditive ==
    (Admitted # {} /\ data = NoData)
    => /\ \A dx1 \in Deltas, dy1 \in Deltas, dx2 \in Deltas, dy2 \in Deltas :
            After(After(mouse, MoveMsg(<<dx1>>, <<dy1>>)), MoveMsg(<<dx2>>, <<dy2>>)).position
            = After(mouse, MoveMsg(<<dx1 + dx2>>, <<dy1 + dy2>>)).position
       /\ After(mouse, MoveMsg(Missing, Missing)).position = mouse.position

\* a move by dx = 1 was handled: the position written is the one read plus 1
C16_Witness ==
    /\ data.msg.action = <<"move">> /\ data.msg.value.dx = <<1>>
    /\ Len(ops) = 2 /\ ops[2].x = ops[1].x + 1
    /\ mouse.position[1] = ops[2].x

\* C17: Stop on a running supervisor whose process is already gone returns
\* ok = true with the uptime message.
C17_StopOkWhenProcessGone ==
    [][(server.is_running /\ server.pid # NoPid /\ server.pid \notin alive
          /\ ret'.op = "stop")
       => (ret'.ok /\ ret'.msg = "Server stopped")]_vars

\* C18: get_uptime returns the placeholder exactly when no server is running
\* with a recorded start time.
C18_UptimePlaceholder ==
    constructed
    => (GetUptime(server, now) = UptimeNA
        <=> (~server.is_running \/ server.start_time = NoTime))

\* a record whose pid is alive and whose port accepts connections
LiveRecord(rec) ==
    /\ rec.kind = "object" /\ rec.pid # NoPid /\ rec.port # NoPort
    /\ rec.pid \in alive /\ rec.port \in listening

\* C19: Stop with no handle in memory adopts a live record, sends the
\* termination request to its pid, removes the record and ends not running;
\* it returns "Server is not running" only when there is no live record.
C19_StopRecovers ==
    [][(constructed /\ StopRecovers(server) /\ ret'.op = "stop")
       => IF LiveRecord(record)
          THEN /\ ~ret'.raised /\ ret'.msg # "Server is not running"
               /\ Call("kill", record.pid) \in {calls'[i] : i \in DOMAIN calls'}
               /\ record' = Absent /\ ~server'.is_running
          ELSE ~ret'.raised /\ ret'.msg = "Server is not running"]_vars

\* C20: the pointer operations of a move are the read of the position and
\* the write of that position plus the deltas, both within the step that
\* read the message, whatever other handlers are suspended; pointer
\* operations are issued only by the step that read a message.
C20_MoveIsAtomic ==
    [][/\ (data'.conn # NoConn /\ data'.msg.action = <<"move">>
             /\ data'.msg.value.kind # "nonobject")
          => LET x == mouse.position[1] + Get(data'.msg.value.dx, 0)
                 y == mouse.position[2] + Get(data'.msg.value.dy, 0)
             IN  /\ ops' = <<Op("get_position", "", mouse.position[1], mouse.position[2]),
                             Op("set_position", "", x, y)>>
                 /\ mouse'.position = <<x, y>>
                 /\ pc' = pc
       /\ ops' # <<>> => (data'.conn # NoConn /\ pc[data'.conn] = "receiving")
       /\ data'.conn = NoConn => mouse' = mouse]_vars

\* a move handled while two sessions are inside the loop
C20_Witness ==
    /\ Cardinality(Admitted) >= 2
    /\ data.msg.action = <<"move">> /\ Len(ops) = 2
    /\ mouse.position = <<ops[2].x, ops[2].y>>

\* the messages of the protocol table that C21 names: "value" an object or
\* absent, the button of a click left, right or absent
InTable(msg) ==
    /\ msg.kind = "object"
    /\ msg.action \in {<<a>> : a \in {"click", "left_press", "left_release",
                                      "right_press", "scroll", "hscroll"}}
    /\ msg.value.kind # "nonobject"
    /\ msg.value.button \in {Missing, <<"left">>, <<"right">>}

\* the pointer operation the protocol table gives for a message of InTable
TableOp(msg) ==
    LET a == msg.action[1]
        amount == Get(msg.value.amount, 0)
    IN  CASE a = "click" -> Op("click", Get(msg.value.button, "left"), 0, 0)
          [] a = "left_press" -> Op("press", "left", 0, 0)
          [] a = "left_release" -> Op("release", "left", 0, 0)
          [] a = "right_press" -> Op("press", "right", 0, 0)
          [] a = "scroll" -> Op("scroll", "", 0, amount)
          [] a = "hscroll" -> Op("scroll", "", amount, 0)

\* C21: the pointer operations issued for a message of the protocol table
\* are exactly the one operation of the table, and the session goes on.
C21_TableOps ==
    (data.conn # NoConn /\ InTable(data.msg))
    => (ops = <<TableOp(data.msg)>> /\ ended = NoEnd /\ pc[data.conn] = "receiving")

\* a click with button right was handled as click(right)
C21_Witness ==
    /\ data.conn # NoConn /\ data.msg.action = <<"click">>
    /\ data.msg.value.button = <<"right">>
    /\ ops = <<Op("click", "right", 0, 0)>>

\* C22: a pass of the uptime refresh changes none of is_running, pid, ip,
\* port, start_time, the persisted record or the environment; it shows the
\* uptime of the handle only while is_running is set.
C22_UptimeTaskReadOnly ==
    [][ret'.op = "update_uptime"
       => (/\ server' = server /\ record' = record /\ constructed' = constructed
           /\ alive' = alive /\ listening' = listening /\ now' = now
           /\ calls' = <<>>
           /\ ret'.ok = server.is_running
           /\ ret'.uptime = IF server.is_running THEN GetUptime(server, now)
                            ELSE UptimeNA)]_vars

\* the refresh ran over a stopped server whose handle is still in memory
C22_Witness ==
    /\ ret.op = "update_uptime" /\ ~ret.ok
    /\ ~server.is_running /\ server.start_time # NoTime /\ record = Absent

\* C23: with every write succeeding and no other writer, between the
\* operations of a constructed supervisor the record exists exactly when
\* is_running is set, and then holds the pid, ip and port of the handle; a
\* start that returned success has set pid, ip, port and start_time and the
\* record is what _save_state writes for them; construction does not raise.
C23_RecordMirrorsLifecycle ==
    /\ ret.op = "construct" => ~ret.raised
    /\ constructed
       => /\ record # Absent <=> server.is_running
          /\ record # Absent
             => /\ record.kind = "object"
                /\ record.pid = server.pid
                /\ record.ip = server.ip
                /\ record.port = server.port
          /\ (ret.op = "start" /\ ret.ok)
             => /\ server.is_running
                /\ server.pid # NoPid /\ server.ip = LanIp
                /\ server.port # NoPort /\ server.start_time # NoTime
                /\ record = SavedState(server)

\* a start called on a supervisor that was not running has succeeded and
\* left its record
C23_Witness ==
    /\ ret.op = "start" /\ ret.ok /\ ~ret.entry
    /\ record # Absent /\ record.pid = server.pid /\ record.port = server.port

\* C24: a stop sends a termination request only to the pid of a handle that
\* is running: the one in memory with is_running set, or the live record it
\* has just adopted.
C24_KillOnlyRunningHandle ==
    [][ret'.op = "stop"
       => \A i \in DOMAIN calls' :
             calls'[i].call = "kill"
             => \/ server.is_running /\ calls'[i].arg = server.pid
                \/ /\ StopRecovers(server) /\ LiveRecord(record)
                   /\ calls'[i].arg = record.pid]_vars

\* C25: a connection inside its dispatcher loop is the one the slot holds.
C25_SlotTracksSession ==
    \A c \in Conns : pc[c] = "receiving" => active_controller = c
====
